---------------------------- MODULE Spec2Model ----------------------------
(***************************************************************************)
(* A model of scripts/check_conventions.py, the convention checker of the  *)
(* 3BX C++ code base.                                                      *)
(*                                                                         *)
(* Text.  A file's text is a sequence of tokens, and a token is a sequence *)
(* of one-character strings (<<"i","n","t">>).  The text the program reads *)
(* is the tokens joined by single blanks; a "\n" token is a line break.    *)
(* Every regular expression of the program is translated to a matcher over *)
(* that sequence: \b holds at every token edge, \s+ is the blank between   *)
(* two tokens, and an offset of the text is the number of tokens before    *)
(* it.  Identifiers keep their characters, so that the casing predicates,  *)
(* the length test and the prefix quirk of the auto pattern are computed   *)
(* as the program computes them.                                           *)
(***************************************************************************)
EXTENDS Integers, Sequences, FiniteSets, TLC

VARIABLES
    \* get_type_nesting_depth's frame
    content, pos, i, depth, brace_stack, scanPc,
    \* check_file's frame: the file it is given, its locals all_types and the
    \* names its variable loop evaluated, and the list it returns
    file, all_types, evaluated, violations, checkPc,
    \* the world of main: the files by path, the command line (sys.argv[1:])
    \* and the file build/.conventions_cache.json
    fs, argv, cacheFile,
    \* main's frame: where it stands, its locals cache and all_violations,
    \* the number of arguments its loop has consumed, and the loop's local
    \* 'violations' (fileViolations: the name is check_file's above)
    pc, cache, all_violations, idx, fileViolations,
    \* what an observer of the runs records: the calls of check_file in this
    \* run, the files the loop checked (path, cache hit, list used), the
    \* run's number, the outcomes of the finished runs, whether a file's
    \* mtime or content changed since the last run began, and the number of
    \* changes made to the files so far
    calls, trace, run, outcomes, touched, changes

scanVars == <<content, pos, i, depth, brace_stack, scanPc>>
checkVars == <<file, all_types, evaluated, violations, checkPc>>
worldVars == <<fs, argv, cacheFile>>
mainVars == <<pc, cache, all_violations, idx, fileViolations>>
observed == <<calls, trace, run, outcomes, touched, changes>>
vars == <<scanVars, checkVars, worldVars, mainVars, observed>>

-----------------------------------------------------------------------------
(* Bounds *)

\* longest text, in tokens, of the scope tracker's specification
MaxLen == 6

\* most declarations in a text of the policy evaluator's specification
MaxDecls == 3

\* most file arguments on the command line
MaxArgs == 2

\* most runs of the checker in a row
MaxRuns == 2

\* most changes made to the files between the runs
MaxChanges == 1

-----------------------------------------------------------------------------
(* The frames of the functions a specification does not run *)

ScanIdle ==
    /\ content = <<>>
    /\ pos = 0
    /\ i = 0
    /\ depth = 0
    /\ brace_stack = <<>>
    /\ scanPc = "idle"

NoFile == [name |-> <<>>, readable |-> FALSE, blankLines |-> 0, text |-> <<>>]

CheckIdle ==
    /\ file = NoFile
    /\ all_types = <<>>
    /\ evaluated = <<>>
    /\ violations = <<>>
    /\ checkPc = "idle"

MainIdle ==
    /\ fs = <<>>
    /\ argv = <<>>
    /\ cacheFile = [state |-> "missing", members |-> <<>>]
    /\ pc = "idle"
    /\ cache = <<>>
    /\ all_violations = <<>>
    /\ idx = 0
    /\ fileViolations = <<>>
    /\ calls = 0
    /\ trace = <<>>
    /\ run = 0
    /\ outcomes = <<>>
    /\ touched = FALSE
    /\ changes = 0

TextsUpTo(alphabet, n) == UNION { [1..m -> alphabet] : m \in 0..n }

-----------------------------------------------------------------------------
(* Characters and tokens *)

Lower == {"a","b","c","d","e","f","g","h","i","j","k","l","m",
          "n","o","p","q","r","s","t","u","v","w","x","y","z"}
Upper == {"A","B","C","D","E","F","G","H","I","J","K","L","M",
          "N","O","P","Q","R","S","T","U","V","W","X","Y","Z"}
Digit == {"0","1","2","3","4","5","6","7","8","9"}

Range(s) == { s[k] : k \in 1..Len(s) }

\* [A-Za-z_][A-Za-z0-9_]*
IsIdent(tok) ==
    /\ Len(tok) >= 1
    /\ tok[1] \in Lower \cup Upper \cup {"_"}
    /\ \A k \in 2..Len(tok) : tok[k] \in Lower \cup Upper \cup Digit \cup {"_"}

LBRACE == <<"{">>
RBRACE == <<"}">>
SEMI == <<";">>
COLON == <<":">>
NL == <<"\n">>
KwNamespace == <<"n","a","m","e","s","p","a","c","e">>
KwStruct == <<"s","t","r","u","c","t">>
KwClass == <<"c","l","a","s","s">>
KwEnum == <<"e","n","u","m">>

\* identifiers used by the generated texts
IdFoo == <<"F","o","o">>
IdBar == <<"B","a","r">>
IdNs == <<"n","s">>

-----------------------------------------------------------------------------
(* Scope tracker: get_type_nesting_depth *)

\* the last index up to k (1-based) that holds no line break, 0 when none:
\* \s+ and \s* take line breaks as well as blanks
WordBefore(text, k) ==
    LET before == { j \in 1..k : text[j] # NL } IN
    IF before = {} THEN 0
    ELSE CHOOSE j \in before : \A h \in before : h <= j

\* the braces (1-based) that end a match of
\* r'\bnamespace\s+[A-Za-z_][A-Za-z0-9_]*\s*\{'
NamespaceBraces(text) ==
    { j \in 1..Len(text) :
        /\ text[j] = LBRACE
        /\ LET name == WordBefore(text, j - 1)
               kw == WordBefore(text, name - 1)
           IN /\ kw >= 1
              /\ IsIdent(text[name])
              /\ text[kw] = KwNamespace }

\* A mutant of namespace_brace_positions: match.end() for match.end() - 1.
namespace_brace_positions_end(text) ==
    { j : j \in NamespaceBraces(text) }

\* brace_pos = match.end() - 1, an offset (the number of tokens before the
\* brace).  A match ends in its brace, so no two candidate matches overlap
\* and finditer finds them all.
namespace_brace_positions(text) ==
    { j - 1 : j \in NamespaceBraces(text) }

\* A mutant of ScanChar: the closing brace decrements whatever it pops.
ScanCharNoNamespaceTest(text, k, st) ==
    LET ch == text[k + 1] IN
    IF ch = LBRACE
      THEN LET is_namespace == k \in namespace_brace_positions(text) IN
           [depth |-> IF is_namespace THEN st.depth ELSE st.depth + 1,
            brace_stack |-> Append(st.brace_stack, is_namespace)]
    ELSE IF ch = RBRACE /\ st.brace_stack # <<>>
      THEN [depth |-> st.depth - 1,
            brace_stack |-> SubSeq(st.brace_stack, 1, Len(st.brace_stack) - 1)]
    ELSE st

\* One turn of the loop 'for i in range(pos)': the character at offset k.
ScanChar(text, k, st) ==
    LET ch == text[k + 1] IN
    IF ch = LBRACE
      THEN LET is_namespace == k \in namespace_brace_positions(text) IN
           [depth |-> IF is_namespace THEN st.depth ELSE st.depth + 1,
            brace_stack |-> Append(st.brace_stack, is_namespace)]
    ELSE IF ch = RBRACE
      THEN IF st.brace_stack # <<>>
             THEN LET was_namespace == st.brace_stack[Len(st.brace_stack)] IN
                  [depth |-> IF was_namespace THEN st.depth ELSE st.depth - 1,
                   brace_stack |-> SubSeq(st.brace_stack, 1,
                                          Len(st.brace_stack) - 1)]
             ELSE st
    ELSE st

RECURSIVE ScanFrom(_, _, _, _)
ScanFrom(text, k, p, st) ==
    IF k >= p THEN st ELSE ScanFrom(text, k + 1, p, ScanChar(text, k, st))

get_type_nesting_depth(text, p) ==
    ScanFrom(text, 0, p, [depth |-> 0, brace_stack |-> <<>>]).depth

-----------------------------------------------------------------------------
(* Lexical matchers.                                                       *)
(* A token is an identifier (keywords included), one punctuation character,*)
(* the line break, or a qualified name A::b written without blanks, whose  *)
(* components are identifiers that are no keyword of a pattern.  A match is*)
(* [ok, start, end, name, last]: start and end are offsets (tokens before  *)
(* the match, tokens before its end), last is the final character of       *)
(* match.group(0).                                                         *)

AMP == <<"&">>
STAR == <<"*">>
EQ == <<"=">>
COMMA == <<",">>
LPAREN == <<"(">>
RPAREN == <<")">>
LBRACKET == <<"[">>
RBRACKET == <<"]">>
KwConst == <<"c","o","n","s","t">>
KwAuto == <<"a","u","t","o">>
KwUnsigned == <<"u","n","s","i","g","n","e","d">>
KwSigned == <<"s","i","g","n","e","d">>
KwInt == <<"i","n","t">>
KwVoid == <<"v","o","i","d">>
KwOverride == <<"o","v","e","r","r","i","d","e">>
KwNoexcept == <<"n","o","e","x","c","e","p","t">>
KwMain == <<"m","a","i","n">>
KwOperator == <<"o","p","e","r","a","t","o","r">>

IdentChars == Lower \cup Upper \cup Digit \cup {"_"}

NoMatch == [ok |-> FALSE, start |-> 0, end |-> 0, name |-> <<>>, last |-> ""]

Match(s, e, name, last) ==
    [ok |-> TRUE, start |-> s, end |-> e, name |-> name, last |-> last]

StartsWith(s, prefix) ==
    Len(s) >= Len(prefix) /\ SubSeq(s, 1, Len(prefix)) = prefix

EndsWith(s, suffix) ==
    Len(s) >= Len(suffix)
      /\ SubSeq(s, Len(s) - Len(suffix) + 1, Len(s)) = suffix

\* the length of the longest prefix of tok that [A-Za-z_][A-Za-z0-9_]* matches
IdentPrefixLen(tok) ==
    Cardinality({ p \in 1..Len(tok) : IsIdent(SubSeq(tok, 1, p)) })

\* (?:[A-Za-z_][A-Za-z0-9_]*::)*[A-Za-z_][A-Za-z0-9_]* over one whole token
RECURSIVE IsQualName(_)
IsQualName(tok) ==
    LET p == IdentPrefixLen(tok) IN
    \/ (p >= 1 /\ p = Len(tok))
    \/ /\ p >= 1 /\ Len(tok) >= p + 3
       /\ tok[p + 1] = ":" /\ tok[p + 2] = ":"
       /\ IsQualName(SubSeq(tok, p + 3, Len(tok)))

\* the identifier after the last '::' of a qualified name
RECURSIVE LastComponent(_)
LastComponent(tok) ==
    LET p == IdentPrefixLen(tok) IN
    IF p = Len(tok) THEN tok ELSE LastComponent(SubSeq(tok, p + 3, Len(tok)))

\* the token at index k (1-based), the empty token past either end
At(text, k) == IF k \in 1..Len(text) THEN text[k] ELSE <<>>

\* \s* and \s+ take line breaks too: the first index from k on, and the
\* last index up to k, that holds no line break (Len + 1 and 0 when none)
NextWord(text, k) ==
    LET rest == { j \in k..Len(text) : text[j] # NL } IN
    IF rest = {} THEN Len(text) + 1
    ELSE CHOOSE j \in rest : \A h \in rest : j <= h

PrevWord(text, k) == WordBefore(text, k)

\* ([A-Za-z_][A-Za-z0-9_]*)\s*[{;:] with the name at the first word from
\* index k on.  In 'Foo::Bar' the name is Foo and the match ends in its ':'.
TypeEnd == {LBRACE, SEMI, COLON}

TypeNameAt(text, s, k) ==
    LET n == NextWord(text, k)
        tok == At(text, n)
        p == IdentPrefixLen(tok)
        e == NextWord(text, n + 1)
    IN IF p >= 1 /\ p = Len(tok)
         THEN IF At(text, e) \in TypeEnd
                THEN Match(s, e, tok, text[e][1])
                ELSE NoMatch
       ELSE IF p >= 1 /\ tok[p + 1] = ":"
         THEN Match(s, n, SubSeq(tok, 1, p), ":")
       ELSE NoMatch

\* STRUCT_PATTERN, CLASS_PATTERN: \bstruct\s+(name)\s*[{;:]
KeywordTypeAt(kw, text, s) ==
    IF text[s + 1] = kw THEN TypeNameAt(text, s, s + 2) ELSE NoMatch

\* ENUM_PATTERN: \benum\s+(?:class\s+)?(name)\s*[{;:]; the optional 'class'
\* is tried first and given up when the rest does not match
EnumAt(text, s) ==
    IF text[s + 1] # KwEnum THEN NoMatch
    ELSE LET c == NextWord(text, s + 2)
             withClass == IF At(text, c) = KwClass
                            THEN TypeNameAt(text, s, c + 1) ELSE NoMatch
         IN IF withClass.ok THEN withClass ELSE TypeNameAt(text, s, s + 2)

\* \s*[&*]?\s*(name)\s*<one of term> after the type, from index k on
VarNameAt(text, s, k, term) ==
    LET a == NextWord(text, k)
        n == IF At(text, a) \in {AMP, STAR} THEN NextWord(text, a + 1) ELSE a
        e == NextWord(text, n + 1)
    IN IF IsIdent(At(text, n)) /\ At(text, e) \in term
         THEN Match(s, e, text[n], text[e][1])
         ELSE NoMatch

VarEnd == {EQ, SEMI, COMMA, RPAREN, RBRACKET}
BasicVarEnd == VarEnd \cup {LBRACKET}

\* AUTO_VAR_PATTERN: \b(?:const\s+)?auto\s*[&*]?\s*(name)\s*[=;,)\]].  No \b
\* follows 'auto': in an identifier that starts with auto, the rest is the
\* name ('autoLoad =' yields Load).
AutoFrom(text, s, k) ==
    LET tok == At(text, k) IN
    IF ~StartsWith(tok, KwAuto) THEN NoMatch
    ELSE IF tok = KwAuto THEN VarNameAt(text, s, k + 1, VarEnd)
    ELSE LET rest == SubSeq(tok, 5, Len(tok))
             e == NextWord(text, k + 1)
         IN IF IsIdent(rest) /\ At(text, e) \in VarEnd
              THEN Match(s, e, rest, text[e][1])
              ELSE NoMatch

AutoVarAt(text, s) ==
    IF text[s + 1] = KwConst THEN AutoFrom(text, s, NextWord(text, s + 2))
    ELSE AutoFrom(text, s, s + 1)

\* [A-Za-z_][A-Za-z0-9_:]* over one whole token
IsTypeName(tok) ==
    /\ Len(tok) >= 1
    /\ tok[1] \in Lower \cup Upper \cup {"_"}
    /\ \A k \in 2..Len(tok) : tok[k] \in IdentChars \cup {":"}

\* CONST_REF_VAR_PATTERN: \bconst\s+Type(?:<[^>]*>)?\s*[&*]\s*(name)\s*[=;,)\]].
\* The template group must touch the type, which no blank-joined text does.
ConstRefVarAt(text, s) ==
    LET ty == NextWord(text, s + 2)
        ref == NextWord(text, ty + 1)
    IN IF /\ text[s + 1] = KwConst
          /\ IsTypeName(At(text, ty))
          /\ At(text, ref) \in {AMP, STAR}
         THEN VarNameAt(text, s, ref, VarEnd)
         ELSE NoMatch

\* uint\d+_t, int\d+_t
IsSizedInt(tok) ==
    \E pre \in {<<"u","i","n","t">>, KwInt} :
        /\ StartsWith(tok, pre)
        /\ EndsWith(tok, <<"_","t">>)
        /\ Len(tok) >= Len(pre) + 3
        /\ \A k \in (Len(pre) + 1)..(Len(tok) - 2) : tok[k] \in Digit

\* BASIC_TYPES
IsBasicType(tok) ==
    \/ tok \in { KwInt, <<"b","o","o","l">>, <<"f","l","o","a","t">>,
                 <<"d","o","u","b","l","e">>, <<"c","h","a","r">>,
                 <<"s","i","z","e","_","t">>, <<"s","s","i","z","e","_","t">>,
                 KwUnsigned, KwSigned, <<"l","o","n","g">>,
                 <<"s","h","o","r","t">>, KwVoid }
    \/ IsSizedInt(tok)

BasicFrom(text, s, k) ==
    IF IsBasicType(At(text, k))
      THEN VarNameAt(text, s, k + 1, BasicVarEnd)
      ELSE NoMatch

\* BASIC_TYPE_VAR_PATTERN.  'unsigned' and 'signed' are modifiers first and
\* types when that fails ('unsigned int ;' declares a variable named int).
BasicTypeVarAt(text, s) ==
    LET k == IF text[s + 1] = KwConst THEN NextWord(text, s + 2) ELSE s + 1
        modified == IF At(text, k) \in {KwUnsigned, KwSigned}
                      THEN BasicFrom(text, s, NextWord(text, k + 1))
                      ELSE NoMatch
    IN IF modified.ok THEN modified ELSE BasicFrom(text, s, k)

\* FUNCTION_PATTERN's return type class [A-Za-z0-9_<>:,\s*&]
ReturnTypeChars == IdentChars \cup {"<", ">", ":", ",", "*", "&", "\n"}

InReturnType(tok) == \A k \in 1..Len(tok) : tok[k] \in ReturnTypeChars

MinOf(S) == CHOOSE x \in S : \A y \in S : x <= y

\* an optional qualifier word at the first word from k on: the index after
\* it, or of that first word
SkipWord(text, k, word) ==
    LET n == NextWord(text, k) IN
    IF At(text, n) = word THEN n + 1 ELSE n

\* FUNCTION_PATTERN (re.MULTILINE) at offset s:
\*   ^\s*  (?: returnType\s+ (?:Name::)*  |  (?:Name::)+ )  (name) \s* \( [^)]* \)
\*   \s* (?:const\s*)? (?:override\s*)? (?:noexcept(?:\([^)]*\))?\s*)? \{
\* The return type may hold blanks and line breaks, nothing outside its class;
\* noexcept's argument must touch it, which no blank-joined text does.
FunctionAt(text, s) ==
    IF ~(s = 0 \/ text[s] = NL) THEN NoMatch
    ELSE
    LET f == NextWord(text, s + 1)
        parens == { k \in f..Len(text) : text[k] = LPAREN }
    IN
    IF parens = {} THEN NoMatch
    ELSE
    LET q == MinOf(parens)
        nm == PrevWord(text, q - 1)
        closes == { k \in (q + 1)..Len(text) : text[k] = RPAREN }
        withReturnType ==
            /\ nm > f
            /\ text[f][1] \in Lower \cup Upper \cup {"_"}
            /\ \A k \in f..(nm - 1) : InReturnType(text[k])
            /\ IsQualName(text[nm])
        qualifiedOnly ==
            /\ nm = f
            /\ IsQualName(text[f])
            /\ ~IsIdent(text[f])
    IN
    IF closes = {} \/ ~(withReturnType \/ qualifiedOnly) THEN NoMatch
    ELSE
    LET r == MinOf(closes)
        t == NextWord(text,
                 SkipWord(text,
                     SkipWord(text, SkipWord(text, r + 1, KwConst), KwOverride),
                     KwNoexcept))
    IN IF At(text, t) = LBRACE
         THEN Match(s, t, LastComponent(text[nm]), "{")
         ELSE NoMatch

\* f'{func_name}::{func_name}(' in match_text, or the same with a blank
\* before the parenthesis: a substring test, so a longer qualified name
\* that ends in it passes too
HasConstructorForm(text, m) ==
    \E k \in (m.start + 1)..(m.end - 1) :
        /\ text[k + 1] = LPAREN
        /\ EndsWith(text[k], m.name \o <<":", ":">> \o m.name)

MatchAt(pat, text, s) ==
    CASE pat = "struct" -> KeywordTypeAt(KwStruct, text, s)
      [] pat = "class" -> KeywordTypeAt(KwClass, text, s)
      [] pat = "enum" -> EnumAt(text, s)
      [] pat = "auto" -> AutoVarAt(text, s)
      [] pat = "const_ref" -> ConstRefVarAt(text, s)
      [] pat = "basic" -> BasicTypeVarAt(text, s)
      [] pat = "function" -> FunctionAt(text, s)

\* pattern.finditer(content): the leftmost match, then on from its end;
\* FindIterOn continues from the outcome m of the attempt at offset s
RECURSIVE FindIter(_, _, _)
RECURSIVE FindIterOn(_, _, _, _)
FindIterOn(pat, text, s, m) ==
    IF m.ok THEN <<m>> \o FindIter(pat, text, m.end)
    ELSE FindIter(pat, text, s + 1)

FindIter(pat, text, s) ==
    IF s >= Len(text) THEN <<>>
    ELSE FindIterOn(pat, text, s, MatchAt(pat, text, s))

-----------------------------------------------------------------------------
(* Casing predicates *)

\* Path(name).stem: the name up to its last dot, a first or last dot kept
Stem(name) ==
    LET dots == { k \in 2..(Len(name) - 1) : name[k] = "." } IN
    IF dots = {} THEN name
    ELSE SubSeq(name, 1, (CHOOSE d \in dots : \A e \in dots : e <= d) - 1)

is_camel_case(name) ==
    IF name = <<>> THEN FALSE
    ELSE LET stem == Stem(name) IN
         IF stem[1] \in Upper THEN FALSE
         ELSE IF "_" \in Range(stem) THEN FALSE
         ELSE TRUE

is_pascal_case(name) ==
    IF name = <<>> THEN FALSE
    ELSE IF name[1] \in Lower THEN FALSE
    ELSE IF "_" \in Range(name) THEN FALSE
    ELSE TRUE

-----------------------------------------------------------------------------
(* Definition extractor and policy evaluator *)

\* match.group(1) of each match
MatchNames(matches) == [k \in 1..Len(matches) |-> matches[k].name]

\* A mutant of find_definitions: forward declarations are kept.
find_definitions_with_forward(text, pat) ==
    MatchNames(SelectSeq(FindIter(pat, text, 0),
        LAMBDA m : get_type_nesting_depth(text, m.start) = 0))

find_definitions(text, pat) ==
    MatchNames(SelectSeq(FindIter(pat, text, 0),
        LAMBDA m : /\ m.last \in {"{", ":"}
                   /\ get_type_nesting_depth(text, m.start) = 0))

\* 'for t in structs + classes + enums: if t not in seen: ...'
RECURSIVE Dedup(_, _)
Dedup(names, seen) ==
    IF names = <<>> THEN <<>>
    ELSE IF names[1] \in seen THEN Dedup(Tail(names), seen)
    ELSE <<names[1]>> \o Dedup(Tail(names), seen \cup {names[1]})

AllTypes(text) ==
    Dedup(find_definitions(text, "struct") \o find_definitions(text, "class")
            \o find_definitions(text, "enum"), {})

\* a violation message: its wording's kind and what it quotes
Msg(kind, name, n, names) ==
    [kind |-> kind, name |-> name, n |-> n, names |-> names]

\* max 1000 lines
MaxLines == 1000

\* one message of a kind for each of the names, in their order
NameMsgs(kind, names) == [k \in 1..Len(names) |-> Msg(kind, names[k], 0, <<>>)]

\* the messages of one naming loop over extracted type names
TypeNaming(names, kind) ==
    NameMsgs(kind, SelectSeq(names, LAMBDA nm : ~is_pascal_case(nm)))

\* the variable loop over the matches of the three families in turn; 'seen'
\* is seen_vars, 'evaluated' lists the names that passed the seen test
RECURSIVE VarLoop(_, _)
VarLoop(matches, st) ==
    IF matches = <<>> THEN st
    ELSE LET var_name == matches[1].name IN
         IF var_name \in st.seen THEN VarLoop(Tail(matches), st)
         ELSE LET seen == st.seen \cup {var_name}
                  names == Append(st.evaluated, var_name)
              IN IF Len(var_name) = 1
                   THEN VarLoop(Tail(matches),
                          [seen |-> seen, evaluated |-> names,
                           out |-> Append(st.out,
                                     Msg("var_short", var_name, 0, <<>>))])
                 ELSE IF ~is_camel_case(var_name)
                   THEN VarLoop(Tail(matches),
                          [seen |-> seen, evaluated |-> names,
                           out |-> Append(st.out,
                                     Msg("var_camel", var_name, 0, <<>>))])
                 ELSE VarLoop(Tail(matches),
                          [seen |-> seen, evaluated |-> names,
                           out |-> st.out])

VarMatches(text) ==
    FindIter("auto", text, 0) \o FindIter("const_ref", text, 0)
      \o FindIter("basic", text, 0)

\* A mutant of VarPass: seen_vars is never consulted.
RECURSIVE VarLoopNoSeen(_, _)
VarLoopNoSeen(matches, st) ==
    IF matches = <<>> THEN st
    ELSE LET var_name == matches[1].name
             names == Append(st.evaluated, var_name)
             msg == IF Len(var_name) = 1
                      THEN <<Msg("var_short", var_name, 0, <<>>)>>
                    ELSE IF ~is_camel_case(var_name)
                      THEN <<Msg("var_camel", var_name, 0, <<>>)>>
                    ELSE <<>>
         IN VarLoopNoSeen(Tail(matches),
              [seen |-> st.seen, evaluated |-> names, out |-> st.out \o msg])

VarPassNoSeen(text) ==
    VarLoopNoSeen(VarMatches(text),
                  [seen |-> {}, evaluated |-> <<>>, out |-> <<>>])

VarPass(text) ==
    VarLoop(VarMatches(text), [seen |-> {}, evaluated |-> <<>>, out |-> <<>>])

\* the function loop: the matches left after the exemptions, not camelCase
FunctionNaming(text, types) ==
    NameMsgs("function", MatchNames(SelectSeq(FindIter("function", text, 0),
        LAMBDA m :
          /\ ~(m.name \in Range(types) \/ m.name[1] = "~")
          /\ ~HasConstructorForm(text, m)
          /\ m.name # KwMain
          /\ ~StartsWith(m.name, KwOperator)
          /\ ~is_camel_case(m.name))))

\* content.count('\n') + 1: the line breaks among the tokens and the blank
\* lines that end the file
LineCount(src) ==
    Cardinality({ k \in 1..Len(src.text) : src.text[k] = NL })
      + src.blankLines + 1

LengthCheck(src) ==
    IF LineCount(src) > MaxLines
      THEN <<Msg("length", <<>>, LineCount(src), <<>>)>> ELSE <<>>

FileNameCheck(src) ==
    IF ~is_camel_case(src.name)
      THEN <<Msg("filename", src.name, 0, <<>>)>> ELSE <<>>

Ext(chars) == <<".">> \o chars

is_header(src) ==
    EndsWith(src.name, Ext(<<"h","p","p">>)) \/ EndsWith(src.name, Ext(<<"h">>))

is_source(src) ==
    EndsWith(src.name, Ext(<<"c","p","p">>)) \/ EndsWith(src.name, Ext(<<"c">>))

\* A mutant of TypeCountCheck: a header with no type is reported too.
TypeCountCheckZeroToo(src, types) ==
    IF is_header(src)
      THEN IF Len(types) # 1
             THEN <<Msg("header_types", <<>>, Len(types), types)>>
             ELSE <<>>
    ELSE IF is_source(src)
      THEN IF Len(types) > 0
             THEN <<Msg("source_types", <<>>, Len(types), types)>>
             ELSE <<>>
    ELSE <<>>

\* only one type per header, none in source
TypeCountCheck(src, types) ==
    IF is_header(src)
      THEN IF Len(types) > 1
             THEN <<Msg("header_types", <<>>, Len(types), types)>>
             ELSE <<>>
    ELSE IF is_source(src)
      THEN IF Len(types) > 0
             THEN <<Msg("source_types", <<>>, Len(types), types)>>
             ELSE <<>>
    ELSE <<>>

\* A mutant of CheckContent: the type-count message is appended after the
\* type naming messages.
CheckContentCountLate(src, structs, classes, enums) ==
    LET types == Dedup(structs \o classes \o enums, {}) IN
    LengthCheck(src)
      \o FileNameCheck(src)
      \o TypeNaming(structs, "struct")
      \o TypeNaming(classes, "class")
      \o TypeNaming(enums, "enum")
      \o TypeCountCheck(src, types)
      \o VarPass(src.text).out
      \o FunctionNaming(src.text, types)

\* the checks on the content read, in the order of the code; structs,
\* classes and enums are the lists find_definitions returned
CheckContent(src, structs, classes, enums) ==
    LET types == Dedup(structs \o classes \o enums, {}) IN
    LengthCheck(src)
      \o FileNameCheck(src)
      \o TypeCountCheck(src, types)
      \o TypeNaming(structs, "struct")
      \o TypeNaming(classes, "class")
      \o TypeNaming(enums, "enum")
      \o VarPass(src.text).out
      \o FunctionNaming(src.text, types)

\* A mutant of check_file: a file that cannot be read yields no message.
check_file_read_failure_silent(src) ==
    IF ~src.readable THEN <<>>
    ELSE CheckContent(src, find_definitions(src.text, "struct"),
                      find_definitions(src.text, "class"),
                      find_definitions(src.text, "enum"))

\* the list check_file returns; a file that cannot be read yields the one
\* 'Could not read file' message
check_file(src) ==
    IF ~src.readable THEN <<Msg("unreadable", <<>>, 0, <<>>)>>
    ELSE CheckContent(src, find_definitions(src.text, "struct"),
                      find_definitions(src.text, "class"),
                      find_definitions(src.text, "enum"))

-----------------------------------------------------------------------------
(* check_file, called on generated files *)

IdBadName == <<"b","a","d","_","n","a","m","e">>
IdBadVar == <<"B","a","d","_","v","a","r">>
IdCount == <<"c","o","u","n","t">>
IdX == <<"x">>
IdBadFunc == <<"B","a","d","F","u","n","c">>
QualFooFoo == <<"F","o","o",":",":","F","o","o">>

\* the declarations a generated text is made of
Decls ==
    { <<KwStruct, IdFoo, LBRACE>>,
      <<KwStruct, IdFoo, SEMI>>,
      <<KwStruct, IdBar, NL, LBRACE>>,
      <<KwClass, IdBadName, COLON>>,
      <<KwEnum, KwClass, IdFoo, LBRACE>>,
      <<KwNamespace, IdNs, LBRACE>>,
      <<RBRACE>>,
      <<KwConst, KwAuto, AMP, IdX, EQ>>,
      <<KwConst, KwInt, STAR, IdBadVar, SEMI>>,
      <<KwInt, IdCount, SEMI>>,
      <<NL, KwVoid, IdBadFunc, LPAREN, RPAREN, LBRACE>>,
      <<NL, QualFooFoo, LPAREN, KwInt, IdX, RPAREN, LBRACE>> }

RECURSIVE Flatten(_)
Flatten(parts) ==
    IF parts = <<>> THEN <<>> ELSE parts[1] \o Flatten(Tail(parts))

GeneratedTexts == { Flatten(parts) : parts \in TextsUpTo(Decls, MaxDecls) }

HeaderName == <<"m","y","F","i","l","e",".","h","p","p">>
SourceName == <<"M","y","_","f","i","l","e",".","c","p","p">>
ShortHeaderName == <<"X",".","h">>

\* name, readability and trailing blank lines of the generated files
FileShapes ==
    { [name |-> HeaderName, readable |-> TRUE, blankLines |-> 0],
      [name |-> SourceName, readable |-> TRUE, blankLines |-> MaxLines],
      [name |-> ShortHeaderName, readable |-> TRUE, blankLines |-> MaxLines - 1],
      [name |-> HeaderName, readable |-> FALSE, blankLines |-> 0] }

CheckInit ==
    /\ \E shape \in FileShapes, text \in GeneratedTexts :
         file = [name |-> shape.name, readable |-> shape.readable,
                 blankLines |-> shape.blankLines, text |-> text]
    /\ all_types = <<>>
    /\ evaluated = <<>>
    /\ violations = <<>>
    /\ checkPc = "call"
    /\ ScanIdle
    /\ MainIdle

\* open() or read() raises: 'except Exception' returns the one message
CheckFileReadFails ==
    /\ checkPc = "call"
    /\ ~file.readable
    /\ violations' = check_file(file)
    /\ checkPc' = "returned"
    /\ UNCHANGED <<file, all_types, evaluated>>
    /\ UNCHANGED <<scanVars, worldVars, mainVars, observed>>

CheckFileReturns ==
    /\ checkPc = "call"
    /\ file.readable
    /\ all_types' = AllTypes(file.text)
    /\ evaluated' = VarPass(file.text).evaluated
    /\ violations' = check_file(file)
    /\ checkPc' = "returned"
    /\ UNCHANGED file
    /\ UNCHANGED <<scanVars, worldVars, mainVars, observed>>

CheckNext == CheckFileReadFails \/ CheckFileReturns

SpecCheck == CheckInit /\ [][CheckNext]_vars

-----------------------------------------------------------------------------
(* The scope tracker, one character a step *)

ScanAlphabet == {KwNamespace, KwStruct, IdFoo, LBRACE, RBRACE, NL}

ScanInit ==
    /\ content \in TextsUpTo(ScanAlphabet, MaxLen)
    /\ pos \in 0..Len(content)
    /\ i = 0
    /\ depth = 0
    /\ brace_stack = <<>>
    /\ scanPc = "scan"
    /\ CheckIdle
    /\ MainIdle

ScanApply ==
    LET st == ScanChar(content, i, [depth |-> depth, brace_stack |-> brace_stack])
    IN /\ depth' = st.depth
       /\ brace_stack' = st.brace_stack
       /\ i' = i + 1
       /\ UNCHANGED <<content, pos, scanPc>>
       /\ UNCHANGED <<checkVars, worldVars, mainVars, observed>>

ScanOpenBrace ==
    /\ scanPc = "scan" /\ i < pos /\ content[i + 1] = LBRACE
    /\ ScanApply

ScanCloseBrace ==
    /\ scanPc = "scan" /\ i < pos /\ content[i + 1] = RBRACE
    /\ ScanApply

ScanOther ==
    /\ scanPc = "scan" /\ i < pos /\ content[i + 1] \notin {LBRACE, RBRACE}
    /\ ScanApply

ScanReturn ==
    /\ scanPc = "scan" /\ i >= pos
    /\ scanPc' = "returned"
    /\ UNCHANGED <<content, pos, i, depth, brace_stack>>
    /\ UNCHANGED <<checkVars, worldVars, mainVars, observed>>

ScanNext == ScanOpenBrace \/ ScanCloseBrace \/ ScanOther \/ ScanReturn

SpecScan == ScanInit /\ [][ScanNext]_vars

-----------------------------------------------------------------------------
(* Result cache and main *)

NotesName == <<"n","o","t","e","s",".","t","x","t">>

Paths == {HeaderName, SourceName, NotesName}

\* sorted() over the paths of the model: 'M' < 'm' < 'n'
PathOrder == <<SourceName, HeaderName, NotesName>>

\* a header that breaks no rule, and a text with a one-letter variable
CleanText == <<KwStruct, IdFoo, NL, LBRACE, RBRACE, SEMI>>
DirtyText == <<KwInt, IdX, SEMI, NL, KwVoid, IdBadFunc, LPAREN, RPAREN, LBRACE>>

OnDisk(isfile, readable, text) ==
    [isfile |-> isfile, mtime |-> 1, readable |-> readable, text |-> text,
     blankLines |-> 0]

HeaderStates ==
    { OnDisk(TRUE, TRUE, CleanText), OnDisk(TRUE, TRUE, DirtyText),
      OnDisk(TRUE, FALSE, CleanText), OnDisk(FALSE, FALSE, <<>>) }

SourceStates == { OnDisk(TRUE, TRUE, DirtyText), OnDisk(TRUE, FALSE, CleanText) }

\* a Python dict: its items in insertion order
Lookup(dict, key) ==
    LET hits == SelectSeq(dict, LAMBDA item : item.key = key)
    IN [k \in 1..Len(hits) |-> hits[k].value]

DictSet(dict, key, value) ==
    IF \E k \in 1..Len(dict) : dict[k].key = key
      THEN [k \in 1..Len(dict) |->
              IF dict[k].key = key THEN [key |-> key, value |-> value]
              ELSE dict[k]]
      ELSE Append(dict, [key |-> key, value |-> value])

\* A mutant of json_dump: files without violations are not written.
json_dump_violations_only(dict) ==
    LET kept == SelectSeq(dict, LAMBDA item : item.value.violations # <<>>)
    IN [k \in 1..Len(kept) |->
          [path |-> kept[k].key, mtime |-> kept[k].value.mtime,
           violations |-> kept[k].value.violations]]

\* json.dump(cache, f): one member a path, in the dict's order
json_dump(dict) ==
    [k \in 1..Len(dict) |->
       [path |-> dict[k].key, mtime |-> dict[k].value.mtime,
        violations |-> dict[k].value.violations]]

\* json.load(f): the dict of the members, a later member replacing an
\* earlier one of the same path
RECURSIVE json_load_from(_, _)
json_load_from(members, dict) ==
    IF members = <<>> THEN dict
    ELSE json_load_from(Tail(members),
           DictSet(dict, members[1].path,
                   [mtime |-> members[1].mtime,
                    violations |-> members[1].violations]))

json_load(members) == json_load_from(members, <<>>)

\* the states the cache file is found in before the first run: absent, not
\* readable, not JSON, or written by an earlier run
InitialCacheFiles ==
    { [state |-> "missing", members |-> <<>>],
      [state |-> "unreadable", members |-> <<>>],
      [state |-> "corrupt", members |-> <<>>],
      [state |-> "valid",
       members |-> <<[path |-> HeaderName, mtime |-> 1, violations |-> <<>>]>>],
      [state |-> "valid",
       members |-> <<[path |-> SourceName, mtime |-> 0, violations |-> <<>>]>>] }

NoOutcome(status, wasTouched) ==
    [status |-> status, entries |-> <<>>, total |-> 0, files |-> 0,
     exit |-> 1, calls |-> 0, touched |-> wasTouched]

MainInit ==
    /\ \E h \in HeaderStates, c \in SourceStates :
         fs = [p \in Paths |->
                 IF p = HeaderName THEN h
                 ELSE IF p = SourceName THEN c
                 ELSE OnDisk(TRUE, TRUE, CleanText)]
    /\ argv \in TextsUpTo(Paths, MaxArgs)
    /\ cacheFile \in InitialCacheFiles
    /\ pc = "start"
    /\ cache = <<>>
    /\ all_violations = <<>>
    /\ idx = 0
    /\ fileViolations = <<>>
    /\ calls = 0
    /\ trace = <<>>
    /\ run = 1
    /\ outcomes = <<>>
    /\ touched = FALSE
    /\ changes = 0
    /\ ScanIdle
    /\ CheckIdle

\* len(sys.argv) < 2: the usage line, return 1
UsageError ==
    /\ pc = "start"
    /\ Len(argv) < 1
    /\ outcomes' = Append(outcomes, NoOutcome("usage", touched))
    /\ touched' = FALSE
    /\ pc' = "done"
    /\ UNCHANGED <<cache, all_violations, idx, fileViolations>>
    /\ UNCHANGED <<calls, trace, run, changes>>
    /\ UNCHANGED <<scanVars, checkVars, worldVars>>

\* load_cache: os.path.isfile holds and open() or json.load() raises
load_cache_raises(cf) == cf.state \in {"unreadable", "corrupt"}

\* load_cache's return value when it returns
load_cache(cf) ==
    IF cf.state = "valid" THEN json_load(cf.members) ELSE <<>>

\* cache = load_cache()
LoadCache ==
    /\ pc = "start"
    /\ Len(argv) >= 1
    /\ ~load_cache_raises(cacheFile)
    /\ cache' = load_cache(cacheFile)
    /\ all_violations' = <<>>
    /\ pc' = "loop"
    /\ UNCHANGED <<idx, fileViolations>>
    /\ UNCHANGED observed
    /\ UNCHANGED <<scanVars, checkVars, worldVars>>

\* the exception of load_cache leaves main: no file is checked, nothing is
\* saved or reported
LoadCacheRaises ==
    /\ pc = "start"
    /\ Len(argv) >= 1
    /\ load_cache_raises(cacheFile)
    /\ outcomes' = Append(outcomes, NoOutcome("aborted", touched))
    /\ touched' = FALSE
    /\ pc' = "aborted"
    /\ UNCHANGED <<cache, all_violations, idx, fileViolations>>
    /\ UNCHANGED <<calls, trace, run, changes>>
    /\ UNCHANGED <<scanVars, checkVars, worldVars>>

\* os.path.isfile(filepath) and filepath.endswith(('.cpp', '.hpp', '.c', '.h'))
IsChecked(filepath) ==
    /\ fs[filepath].isfile
    /\ \E ext \in {<<"c","p","p">>, <<"h","p","p">>, <<"c">>, <<"h">>} :
         EndsWith(filepath, Ext(ext))

\* what check_file opens at filepath
FileAt(filepath) ==
    [name |-> filepath, readable |-> fs[filepath].readable,
     blankLines |-> fs[filepath].blankLines, text |-> fs[filepath].text]

\* A mutant of CacheHit: any entry of the path is reused.
CacheHitAnyMtime(cached, mtime) == cached # <<>>

\* 'cached and cached.get('mtime') == mtime'; cached is cache.get(filepath),
\* <<>> for None
CacheHit(cached, mtime) == cached # <<>> /\ cached[1].mtime = mtime

\* 'if violations: all_violations[filepath] = violations'
Collect(dict, filepath, list) ==
    IF list # <<>> THEN DictSet(dict, filepath, list) ELSE dict

\* a loop turn on an argument that is no file or has another extension
SkipArgument ==
    /\ pc = "loop"
    /\ idx < Len(argv)
    /\ ~IsChecked(argv[idx + 1])
    /\ idx' = idx + 1
    /\ UNCHANGED <<pc, cache, all_violations, fileViolations>>
    /\ UNCHANGED observed
    /\ UNCHANGED <<scanVars, checkVars, worldVars>>

\* a loop turn that takes the list from the cache
UseCached ==
    /\ pc = "loop"
    /\ idx < Len(argv)
    /\ LET filepath == argv[idx + 1]
           mtime == fs[filepath].mtime
           cached == Lookup(cache, filepath)
       IN /\ IsChecked(filepath)
          /\ CacheHit(cached, mtime)
          /\ fileViolations' = cached[1].violations
          /\ all_violations' =
               Collect(all_violations, filepath, cached[1].violations)
          /\ trace' = Append(trace, [path |-> filepath, hit |-> TRUE,
                                     violations |-> cached[1].violations])
    /\ idx' = idx + 1
    /\ UNCHANGED <<pc, cache>>
    /\ UNCHANGED <<calls, run, outcomes, touched, changes>>
    /\ UNCHANGED <<scanVars, checkVars, worldVars>>

\* a loop turn that calls check_file and overwrites the path's entry
Recompute ==
    /\ pc = "loop"
    /\ idx < Len(argv)
    /\ LET filepath == argv[idx + 1]
           mtime == fs[filepath].mtime
           cached == Lookup(cache, filepath)
       IN /\ IsChecked(filepath)
          /\ ~CacheHit(cached, mtime)
          /\ fileViolations' = check_file(FileAt(filepath))
          /\ cache' = DictSet(cache, filepath,
                              [mtime |-> mtime,
                               violations |-> fileViolations'])
          /\ all_violations' = Collect(all_violations, filepath,
                                       fileViolations')
          /\ trace' = Append(trace, [path |-> filepath, hit |-> FALSE,
                                     violations |-> fileViolations'])
    /\ calls' = calls + 1
    /\ idx' = idx + 1
    /\ UNCHANGED pc
    /\ UNCHANGED <<run, outcomes, touched, changes>>
    /\ UNCHANGED <<scanVars, checkVars, worldVars>>

\* save_cache(cache), after the loop; the storage is taken to be writable
SaveCache ==
    /\ pc = "loop"
    /\ idx = Len(argv)
    /\ cacheFile' = [state |-> "valid", members |-> json_dump(cache)]
    /\ pc' = "report"
    /\ UNCHANGED <<fs, argv>>
    /\ UNCHANGED <<cache, all_violations, idx, fileViolations>>
    /\ UNCHANGED observed
    /\ UNCHANGED <<scanVars, checkVars>>

\* sorted(all_violations.items())
SortedItems(dict) ==
    LET keys == SelectSeq(PathOrder, LAMBDA p : Lookup(dict, p) # <<>>)
    IN [k \in 1..Len(keys) |->
          [path |-> keys[k], violations |-> Lookup(dict, keys[k])[1]]]

RECURSIVE SumLen(_)
SumLen(items) ==
    IF items = <<>> THEN 0
    ELSE Len(items[1].violations) + SumLen(Tail(items))

\* the report and the return value of main
Report ==
    /\ pc = "report"
    /\ LET items == SortedItems(all_violations) IN
       outcomes' = Append(outcomes,
           [status |-> "ok", entries |-> items, total |-> SumLen(items),
            files |-> Len(all_violations),
            exit |-> IF all_violations # <<>> THEN 1 ELSE 0,
            calls |-> calls, touched |-> touched])
    /\ touched' = FALSE
    /\ pc' = "done"
    /\ UNCHANGED <<cache, all_violations, idx, fileViolations>>
    /\ UNCHANGED <<calls, trace, run, changes>>
    /\ UNCHANGED <<scanVars, checkVars, worldVars>>

BetweenRuns == pc \in {"done", "aborted"} /\ run < MaxRuns

\* the checker is started again on the same command line
NextRun ==
    /\ BetweenRuns
    /\ run' = run + 1
    /\ pc' = "start"
    /\ cache' = <<>>
    /\ all_violations' = <<>>
    /\ idx' = 0
    /\ fileViolations' = <<>>
    /\ calls' = 0
    /\ trace' = <<>>
    /\ UNCHANGED <<outcomes, touched, changes>>
    /\ UNCHANGED <<scanVars, checkVars, worldVars>>

ChangeFile(path, new, isTouch) ==
    /\ BetweenRuns
    /\ changes < MaxChanges
    /\ fs[path].isfile
    /\ fs' = [fs EXCEPT ![path] = new]
    /\ changes' = changes + 1
    /\ touched' = (touched \/ isTouch)
    /\ UNCHANGED <<argv, cacheFile>>
    /\ UNCHANGED mainVars
    /\ UNCHANGED <<calls, trace, run, outcomes>>
    /\ UNCHANGED <<scanVars, checkVars>>

\* between two runs a file is saved again with the same content
Touch ==
    \E path \in {HeaderName, SourceName} :
        ChangeFile(path, [fs[path] EXCEPT !.mtime = @ + 1], TRUE)

\* between two runs a file is edited
Edit ==
    \E path \in {HeaderName, SourceName} :
        ChangeFile(path,
            [fs[path] EXCEPT !.mtime = @ + 1,
                             !.text = IF @ = CleanText THEN DirtyText
                                      ELSE CleanText],
            TRUE)

\* between two runs a file's permissions change: mtime and content stay
Chmod ==
    \E path \in {HeaderName, SourceName} :
        ChangeFile(path, [fs[path] EXCEPT !.readable = ~@], FALSE)

Next ==
    \/ UsageError
    \/ LoadCache
    \/ LoadCacheRaises
    \/ SkipArgument
    \/ UseCached
    \/ Recompute
    \/ SaveCache
    \/ Report
    \/ NextRun
    \/ Touch
    \/ Edit
    \/ Chmod

Init == MainInit

Spec == Init /\ [][Next]_vars

-----------------------------------------------------------------------------
(* The result cache's claims *)

UnreadableList == <<Msg("unreadable", <<>>, 0, <<>>)>>

\* the entry of path is valid: it exists and holds the file's current mtime
ValidEntry(dict, path) ==
    \E k \in 1..Len(dict) :
        dict[k].key = path /\ dict[k].value.mtime = fs[path].mtime

EntryOf(dict, path) ==
    LET k == CHOOSE n \in 1..Len(dict) : dict[n].key = path IN dict[k].value

OtherEntries(dict, path) == SelectSeq(dict, LAMBDA item : item.key # path)

\* C1: in a loop turn on a checked file, the cached list is used, check_file
\* is not called and the cache is left as it is if and only if the path has
\* an entry whose mtime is the file's; otherwise check_file is called and
\* the path's entry becomes {the file's mtime, the list just computed}.
C1_CacheReuseDecision ==
    [][ (pc = "loop" /\ idx' = idx + 1 /\ IsChecked(argv[idx + 1])) =>
          LET path == argv[idx + 1] IN
          IF ValidEntry(cache, path)
            THEN /\ fileViolations' = EntryOf(cache, path).violations
                 /\ calls' = calls
                 /\ cache' = cache
            ELSE /\ calls' = calls + 1
                 /\ fileViolations' = check_file(FileAt(path))
                 /\ EntryOf(cache', path) =
                      [mtime |-> fs[path].mtime,
                       violations |-> check_file(FileAt(path))]
                 /\ OtherEntries(cache', path) = OtherEntries(cache, path)
      ]_vars

\* one file was taken from the cache, and another, whose entry in the cache
\* file held an older mtime, was checked again and its entry overwritten
C1_Witness ==
    /\ pc = "loop"
    /\ \E a, b \in 1..Len(trace) :
         /\ trace[a].hit
         /\ ~trace[b].hit
         /\ \E k \in 1..Len(cacheFile.members) :
              /\ cacheFile.members[k].path = trace[b].path
              /\ cacheFile.members[k].mtime # fs[trace[b].path].mtime
         /\ EntryOf(cache, trace[b].path).mtime = fs[trace[b].path].mtime

SameReport(a, b) ==
    /\ a.entries = b.entries
    /\ a.total = b.total
    /\ a.files = b.files
    /\ a.exit = b.exit

\* C2: a run that follows a completed run on the same arguments, no file's
\* mtime or content changed in between and the cache of the first loaded by
\* the second, gives the same report and calls check_file zero times.
C2_SecondRunIdempotent ==
    \A r \in 2..Len(outcomes) :
        (outcomes[r - 1].status = "ok" /\ ~outcomes[r].touched) =>
            /\ outcomes[r].status = "ok"
            /\ SameReport(outcomes[r], outcomes[r - 1])
            /\ outcomes[r].calls = 0

\* two runs over a header without violations and a file that cannot be
\* read: two calls of check_file in the first, none in the second
C2_Witness ==
    /\ pc = "done"
    /\ Len(outcomes) = 2
    /\ outcomes[1].status = "ok" /\ outcomes[1].calls = 2
    /\ outcomes[2].status = "ok" /\ outcomes[2].calls = 0
    /\ ~outcomes[2].touched
    /\ \E a, b \in 1..Len(trace) :
         /\ trace[a].hit /\ trace[a].violations = <<>>
         /\ trace[b].hit /\ trace[b].violations = UnreadableList

\* C3 as stated: whatever the state of the cache file, load_cache returns,
\* with the empty mapping when the file is missing, unreadable or corrupt,
\* and the run goes on to check the files.
C3_LoadCacheFailsOpen ==
    /\ pc # "aborted"
    /\ (pc = "loop" /\ idx = 0 /\ cacheFile.state # "valid") => cache = <<>>

CheckedArguments == SelectSeq(argv, IsChecked)

\* C4: a file that cannot be read yields the one 'Could not read file'
\* message and the loop goes on: once the loop has begun the run does not
\* stop short of save_cache and the report, and every checked argument, in
\* the order of the command line, has been handled by then.
C4_FileFailureContained ==
    /\ [](/\ \A k \in 1..Len(trace) :
               (pc \in {"loop", "report"} /\ ~trace[k].hit
                  /\ ~fs[trace[k].path].readable)
                 => trace[k].violations = UnreadableList
          /\ pc = "loop" =>
               /\ idx <= Len(argv)
               /\ [k \in 1..Len(trace) |-> trace[k].path]
                    = SelectSeq(SubSeq(argv, 1, idx), IsChecked)
          /\ pc = "report" =>
               /\ [k \in 1..Len(trace) |-> trace[k].path] = CheckedArguments
               /\ cacheFile = [state |-> "valid", members |-> json_dump(cache)])
    /\ [][ /\ pc = "loop" =>
                \/ (pc' = "loop" /\ idx' = idx + 1)
                \/ (pc' = "report" /\ idx = Len(argv))
           /\ pc = "report" => (pc' = "done" /\ Len(outcomes') = Len(outcomes) + 1
                                 /\ outcomes'[Len(outcomes')].status = "ok")
         ]_vars

\* the first argument could not be read, the second was checked after it,
\* and the cache has been saved
C4_Witness ==
    /\ pc = "report"
    /\ Len(trace) = 2
    /\ ~trace[1].hit
    /\ ~fs[trace[1].path].readable
    /\ trace[1].violations = UnreadableList
    /\ trace[2].path # trace[1].path
    /\ ~trace[2].hit
    /\ cacheFile.state = "valid" /\ Len(cacheFile.members) = 2

-----------------------------------------------------------------------------
(* What the scope tracker is to compute, stated without a stack *)

\* opening braces less closing braces among the tokens a..b (1-based)
Bal(text, a, b) ==
    Cardinality({ k \in a..b : text[k] = LBRACE })
      - Cardinality({ k \in a..b : text[k] = RBRACE })

\* no closing brace before offset p lacks its opening brace: the text before
\* p is the start of a text with balanced braces
PrefixBalanced(text, p) == \A k \in 1..p : Bal(text, 1, k) >= 0

\* the opening braces (1-based) before offset p whose block is not closed
\* before p: none of the closing braces after it brings the count below it
OpenBraces(text, p) ==
    { j \in 1..p : /\ text[j] = LBRACE
                   /\ \A k \in (j+1)..p : Bal(text, j + 1, k) # -1 }

\* the two words before index j, line breaks passed over
WordsBefore(text, j) ==
    LET words == SelectSeq(SubSeq(text, 1, j - 1), LAMBDA tok : tok # NL)
    IN IF Len(words) < 2 THEN <<>>
       ELSE SubSeq(words, Len(words) - 1, Len(words))

\* the brace at j (1-based) ends 'namespace <name> {'
OpensNamespace(text, j) ==
    LET w == WordsBefore(text, j) IN
    w # <<>> /\ w[1] = KwNamespace /\ IsIdent(w[2])

\* the brace at j (1-based) ends 'struct <name> {' or 'class <name> {'
OpensTypeBody(text, j) ==
    LET w == WordsBefore(text, j) IN
    w # <<>> /\ w[1] \in {KwStruct, KwClass} /\ IsIdent(w[2])

\* C6: for a text with balanced braces and any offset, the depth returned is
\* the number of blocks open at the offset that no 'namespace <name> {'
\* opened; inside namespace blocks only it is 0, and inside a struct or class
\* body it is at least 1, in a namespace or not.
C6_DepthCountsNonNamespaceBlocks ==
    (scanPc = "returned" /\ PrefixBalanced(content, pos)) =>
        LET open == OpenBraces(content, pos) IN
        /\ depth = Cardinality({ j \in open : ~OpensNamespace(content, j) })
        /\ (\A j \in open : OpensNamespace(content, j)) => depth = 0
        /\ (\E j \in open : OpensTypeBody(content, j)) => depth >= 1

\* a struct body inside a namespace, and an offset inside the body
C6_Witness ==
    /\ scanPc = "returned"
    /\ content = <<KwNamespace, IdFoo, LBRACE, KwStruct, IdFoo, LBRACE>>
    /\ pos = 6
    /\ depth = 1

NonNamespaceEntries(stack) ==
    Cardinality({ k \in 1..Len(stack) : ~stack[k] })

\* C10: at every step of the scan, balanced text or not, the depth counter is
\* the number of non-namespace entries of the brace stack, so it is never
\* negative; and a closing brace met with the stack empty changes neither.
C10_DepthMatchesStack ==
    /\ [](depth = NonNamespaceEntries(brace_stack) /\ depth >= 0)
    /\ [][(ScanCloseBrace /\ brace_stack = <<>>) =>
            (brace_stack' = <<>> /\ depth' = depth)]_vars

\* a closing brace was met with the stack empty, then a namespace brace and
\* a plain one were pushed
C10_Witness ==
    /\ content = <<RBRACE, KwNamespace, IdFoo, LBRACE, LBRACE, RBRACE>>
    /\ i = 5
    /\ brace_stack = <<TRUE, FALSE>>
    /\ depth = 1

-----------------------------------------------------------------------------
(* What the definition extractor is to compute, stated over the words of   *)
(* the text and the blocks open at a keyword                               *)

\* the words from index k on, line breaks passed over
WordsFrom(text, k) ==
    SelectSeq(SubSeq(text, k, Len(text)), LAMBDA tok : tok # NL)

\* the keyword at index j (1-based) starts a definition of its kind ('{' or
\* ':' follows the name), and the name it defines
StartsDefinition(text, j, kind) ==
    LET w == WordsFrom(text, j + 1)
        plain == Len(w) >= 2 /\ IsIdent(w[1]) /\ w[2] \in {LBRACE, COLON}
        scoped == Len(w) >= 3 /\ w[1] = KwClass /\ IsIdent(w[2])
                    /\ w[3] \in {LBRACE, COLON}
        scopedForward == Len(w) >= 3 /\ w[1] = KwClass /\ IsIdent(w[2])
                           /\ w[3] = SEMI
    IN CASE kind = "struct" -> text[j] = KwStruct /\ plain
         [] kind = "class" -> text[j] = KwClass /\ plain
         [] kind = "enum" ->
              text[j] = KwEnum /\ (scoped \/ (plain /\ ~scopedForward))

DefinedName(text, j, kind) ==
    LET w == WordsFrom(text, j + 1) IN
    IF kind = "enum" /\ Len(w) >= 3 /\ w[1] = KwClass /\ IsIdent(w[2])
         /\ w[3] \in {LBRACE, COLON}
      THEN w[2] ELSE w[1]

\* no block other than a namespace's is open where the keyword at j stands
AtTopLevel(text, j) ==
    \A b \in OpenBraces(text, j - 1) : OpensNamespace(text, b)

TopLevelDefinitions(text, kind) ==
    { j \in 1..Len(text) : StartsDefinition(text, j, kind) /\ AtTopLevel(text, j) }

RECURSIVE Ascending(_)
Ascending(S) ==
    IF S = {} THEN <<>>
    ELSE LET m == MinOf(S) IN <<m>> \o Ascending(S \ {m})

\* the names of one kind's top-level definitions, in text order
Stream(text, kind) ==
    LET at == Ascending(TopLevelDefinitions(text, kind))
    IN [k \in 1..Len(at) |-> DefinedName(text, at[k], kind)]

Streams(text) ==
    Stream(text, "struct") \o Stream(text, "class") \o Stream(text, "enum")

FirstSeen(seq, x) == MinOf({ k \in 1..Len(seq) : seq[k] = x })

\* C7: all_types is the names of the struct, class and enum matches that end
\* in '{' or ':' at depth 0, each once, in the order they are first seen over
\* the struct, the class and then the enum matches; forward declarations and
\* types nested in a type body add no name.
C7_AllTypesAreTopLevelDefinitions ==
    (checkPc = "returned" /\ file.readable) =>
        LET seen == Streams(file.text) IN
        /\ Range(all_types) = Range(seen)
        /\ \A a, b \in 1..Len(all_types) :
             a < b => FirstSeen(seen, all_types[a]) < FirstSeen(seen, all_types[b])

\* a forward declaration of Foo, the definition of Bar, Foo defined in Bar
C7_Witness ==
    /\ checkPc = "returned"
    /\ file.readable
    /\ file.text = <<KwStruct, IdFoo, SEMI, KwStruct, IdBar, NL, LBRACE,
                     KwStruct, IdFoo, LBRACE>>
    /\ all_types = <<IdBar>>

\* a scoped enum is matched as a class and as an enum: one name
C7_WitnessDuplicate ==
    /\ checkPc = "returned"
    /\ file.readable
    /\ file.text = <<KwNamespace, IdNs, LBRACE, KwEnum, KwClass, IdFoo, LBRACE>>
    /\ all_types = <<IdFoo>>

-----------------------------------------------------------------------------
(* Type count by file kind *)

TypeCountMsgs ==
    SelectSeq(violations, LAMBDA m : m.kind \in {"header_types", "source_types"})

\* the number of distinct top-level types of the checked file
DistinctTopLevelTypes == Cardinality(Range(Streams(file.text)))

ListsAllTypes(m) ==
    /\ Len(m.names) = DistinctTopLevelTypes
    /\ Range(m.names) = Range(Streams(file.text))
    /\ m.n = DistinctTopLevelTypes

\* C5 as stated: a header is reported exactly when it has no top-level type
\* or at least two, a source file exactly when it has at least one.
C5_HeaderZeroOrManyTypes ==
    (checkPc = "returned" /\ file.readable) =>
        /\ is_header(file) =>
             (TypeCountMsgs # <<>> <=>
                (DistinctTopLevelTypes = 0 \/ DistinctTopLevelTypes >= 2))
        /\ is_source(file) =>
             (TypeCountMsgs # <<>> <=> DistinctTopLevelTypes >= 1)

\* C5, amended: a header is reported exactly when it has at least two
\* top-level types (none for zero or one), a source file exactly when it has
\* at least one; the one message lists all the names.
C5_HeaderManyTypes ==
    (checkPc = "returned" /\ file.readable) =>
        /\ is_header(file) =>
             (TypeCountMsgs # <<>> <=> DistinctTopLevelTypes >= 2)
        /\ is_source(file) =>
             (TypeCountMsgs # <<>> <=> DistinctTopLevelTypes >= 1)
        /\ Len(TypeCountMsgs) <= 1
        /\ \A k \in 1..Len(TypeCountMsgs) : ListsAllTypes(TypeCountMsgs[k])

\* a header with two types is reported, the message naming both
C5_Witness ==
    /\ checkPc = "returned"
    /\ file.readable
    /\ file.name = HeaderName
    /\ DistinctTopLevelTypes = 2
    /\ Len(TypeCountMsgs) = 1
    /\ TypeCountMsgs[1].names = <<IdFoo, IdBadName>>

\* a header without any type is not reported
C5_WitnessNoType ==
    /\ checkPc = "returned"
    /\ file.readable
    /\ file.name = HeaderName
    /\ file.text # <<>>
    /\ DistinctTopLevelTypes = 0
    /\ TypeCountMsgs = <<>>

-----------------------------------------------------------------------------
(* Order of the messages *)

\* the groups of the order: length, file name, type count, then the
\* identifiers as discovered: structs, classes, enums, variables, functions
Rank(kind) ==
    CASE kind = "length" -> 1
      [] kind = "filename" -> 2
      [] kind \in {"header_types", "source_types"} -> 3
      [] kind = "struct" -> 4
      [] kind = "class" -> 5
      [] kind = "enum" -> 6
      [] kind \in {"var_short", "var_camel"} -> 7
      [] kind = "function" -> 8
      [] OTHER -> 0

\* sub is seq with some elements left out
RECURSIVE IsSubSeq(_, _)
IsSubSeq(sub, seq) ==
    IF sub = <<>> THEN TRUE
    ELSE IF seq = <<>> THEN FALSE
    ELSE IF sub[1] = seq[1] THEN IsSubSeq(Tail(sub), Tail(seq))
    ELSE IsSubSeq(sub, Tail(seq))

NamesOf(kinds) ==
    LET msgs == SelectSeq(violations, LAMBDA m : m.kind \in kinds)
    IN [k \in 1..Len(msgs) |-> msgs[k].name]

\* C8: the messages of a readable file come in the order length, file name,
\* type count, then the identifiers' messages (types, variables, functions)
\* in the order the identifiers were discovered; none of an earlier group
\* follows one of a later group.
C8_MessageOrder ==
    (checkPc = "returned" /\ file.readable) =>
        /\ \A a, b \in 1..Len(violations) :
             a < b => Rank(violations[a].kind) <= Rank(violations[b].kind)
        /\ \A k \in 1..Len(violations) : Rank(violations[k].kind) >= 1
        /\ IsSubSeq(NamesOf({"struct"}), Stream(file.text, "struct"))
        /\ IsSubSeq(NamesOf({"class"}), Stream(file.text, "class"))
        /\ IsSubSeq(NamesOf({"enum"}), Stream(file.text, "enum"))
        /\ IsSubSeq(NamesOf({"var_short", "var_camel"}),
                    MatchNames(VarMatches(file.text)))
        /\ IsSubSeq(NamesOf({"function"}),
                    MatchNames(FindIter("function", file.text, 0)))

\* a file with a message of every group
C8_Witness ==
    /\ checkPc = "returned"
    /\ file.readable
    /\ [k \in 1..Len(violations) |-> violations[k].kind]
         = <<"length", "filename", "source_types", "class", "var_camel",
             "function">>

-----------------------------------------------------------------------------
(* Variable naming *)

VarMsgs(name) ==
    SelectSeq(violations,
              LAMBDA m : m.kind \in {"var_short", "var_camel"} /\ m.name = name)

Occurrences(seq, x) == Cardinality({ k \in 1..Len(seq) : seq[k] = x })

\* camelCase as the conventions word it: a lowercase start, no underscore
LooksCamelCase(name) == name[1] \notin Upper /\ \A k \in 1..Len(name) : name[k] # "_"

\* C9: every distinct variable name is evaluated exactly once, however often
\* and by however many of the three patterns it is matched; it gets at most
\* one message: 'too short' when it has one character, whatever its case,
\* 'should be camelCase' otherwise.
C9_VariableEvaluatedOnce ==
    (checkPc = "returned" /\ file.readable) =>
        LET matched == MatchNames(VarMatches(file.text)) IN
        /\ Range(evaluated) = Range(matched)
        /\ \A name \in Range(matched) :
             /\ Occurrences(evaluated, name) = 1
             /\ Len(VarMsgs(name)) <= 1
             /\ Len(name) = 1 =>
                  (Len(VarMsgs(name)) = 1 /\ VarMsgs(name)[1].kind = "var_short")
             /\ Len(name) > 1 =>
                  /\ \A k \in 1..Len(VarMsgs(name)) :
                       VarMsgs(name)[k].kind = "var_camel"
                  /\ VarMsgs(name) # <<>> <=> ~LooksCamelCase(name)

\* x is matched by the auto and the const-reference patterns, and again by
\* the basic-type pattern in a parameter list: one 'too short' message
C9_Witness ==
    /\ checkPc = "returned"
    /\ file.readable
    /\ Occurrences(MatchNames(VarMatches(file.text)), IdX) >= 3
    /\ Occurrences(MatchNames(FindIter("auto", file.text, 0)), IdX) >= 1
    /\ Occurrences(MatchNames(FindIter("const_ref", file.text, 0)), IdX) >= 1
    /\ Occurrences(MatchNames(FindIter("basic", file.text, 0)), IdX) >= 1
    /\ Occurrences(evaluated, IdX) = 1
    /\ Len(VarMsgs(IdX)) = 1
    /\ VarMsgs(IdX)[1].kind = "var_short"

=============================================================================
